---- MODULE Spec2Model ----
(***************************************************************************)
(* A model of immich_tz_fixer.py: main's three phases (fetch, interpolate, *)
(* update), fetch_all_assets' pagination loop, apply_interpolation and the *)
(* per-asset loop of process_updates.                                      *)
(*                                                                         *)
(* Terminal rendering (rich), the progress bars and the trailing log are   *)
(* left out: they read the state modelled here and never write it.         *)
(* get_total_count only feeds a progress bar and is left out as well.      *)
(*                                                                         *)
(* Data conventions                                                        *)
(*   - exifInfo.dateTimeOriginal is a record [kind, t]: kind "missing" is  *)
(*     an absent/null/empty value, kind "garbage" is a non-empty string    *)
(*     that dateutil's isoparse rejects, kind "iso" is a string isoparse   *)
(*     accepts and t is the instant it denotes.                            *)
(*   - exifInfo.latitude/longitude are held as one value gps (the catalog  *)
(*     delivers both or neither); None stands for Python's None.           *)
(*   - the keys apply_interpolation attaches to an asset (_dt,             *)
(*     _interpolated, _new_lat/_new_lng, _method) are the fields dt,       *)
(*     interpolated, new_gps, method_tag; an absent key is the default     *)
(*     value given by Fetched.                                             *)
(***************************************************************************)
EXTENDS Integers, Sequences, FiniteSets, TLC

VARIABLES
    pc,           \* position in main: start, fetch, fetched, phase3, loop, done
    fix,          \* --fix
    dry_run,      \* --dry-run
    interpolate,  \* --interpolate
    method,       \* --method
    catalog,      \* the remote catalog's assets matching the filter
    page,         \* fetch_all_assets: page
    requested,    \* the pages requested so far, in order
    fetch_error,  \* a request of fetch_all_assets raised RequestException
    all_assets,   \* fetch_all_assets: all_assets
    assets,       \* main: assets, as handed to process_updates
    stats,        \* process_updates: stats
    k,            \* process_updates: number of loop iterations completed
    outcomes,     \* per iteration: the asset and the counter it incremented
    puts          \* the PUT requests issued, in order, with their result

vars == <<pc, fix, dry_run, interpolate, method, catalog, page, requested,
          fetch_error, all_assets, assets, stats, k, outcomes, puts>>

----------------------------------------------------------------------------
(* Bounds of the model *)

MaxAssets == 3

MaxTime == 3

MaxBatch == 2

\* fetch_all_assets' page size (250 in the source), scaled down
size == 2

----------------------------------------------------------------------------
(* Values *)

None == "None"

Min(a, b) == IF a <= b THEN a ELSE b

Abs(x) == IF x < 0 THEN -x ELSE x

Missing == [kind |-> "missing", t |-> 0]

Garbage == [kind |-> "garbage", t |-> 0]

Iso(t) == [kind |-> "iso", t |-> t]

\* Coordinates, named by the place they lie in
Coords == {"paris", "juarez", "ocean"}

Zones == {"Europe/Paris", "America/Ciudad_Juarez"}

\* An asset as the catalog returns it, with none of the derived keys set.
\* anchor_of is not a key of the code: it records, for the properties, the id
\* of the asset whose anchor an annotation was copied from (0: none).
Fetched(id, ts, gps, tz) ==
    [id |-> id, dateTimeOriginal |-> ts, gps |-> gps, timeZone |-> tz,
     dt |-> 0, interpolated |-> FALSE, new_gps |-> None, method_tag |-> "",
     anchor_of |-> 0]

Counters == {"Updated", "Already correct", "Skipped", "Errors"}

----------------------------------------------------------------------------
(* External collaborators *)

\* requests.post(.../api/search/metadata) for one page: the page's slice of
\* the catalog
list_assets(p) ==
    SubSeq(catalog, (p - 1) * size + 1, Min(p * size, Len(catalog)))

\* TimezoneFinder.timezone_at: a pure lookup; no zone is known at sea
resolve_timezone(gps) ==
    CASE gps = "paris" -> "Europe/Paris"
      [] gps = "juarez" -> "America/Ciudad_Juarez"
      [] OTHER -> None

\* dateutil.tz.gettz: None for a zone the installed tz database lacks
\* (America/Ciudad_Juarez was added to tzdata in 2022)
gettz(name) == IF name = "Europe/Paris" THEN name ELSE None

\* `if ts_str:` / `if not original_str:`
truthy(ts_str) == ts_str.kind # "missing"

\* parser.isoparse raises ValueError unless the string is ISO-8601
isoparse_raises(ts_str) == ts_str.kind # "iso"

isoparse(ts_str) == ts_str.t

----------------------------------------------------------------------------
(* fetch_all_assets *)

short_page_ignored(items) == FALSE

\* `if len(items) < size: break`
short_page(items) == Len(items) < size

----------------------------------------------------------------------------
(* apply_interpolation *)

\* the first loop: keep the assets whose timestamp is present and parses
is_valid(asset) ==
    /\ truthy(asset.dateTimeOriginal)
    /\ ~isoparse_raises(asset.dateTimeOriginal)

with_dt(asset) == [asset EXCEPT !.dt = isoparse(asset.dateTimeOriginal)]

valid_assets(as) ==
    LET kept == SelectSeq(as, is_valid)
    IN  [i \in 1..Len(kept) |-> with_dt(kept[i])]

\* list.sort(key=_dt) is stable: an element goes after those not later than it
RECURSIVE insert_sorted(_, _)
insert_sorted(s, a) ==
    IF s = <<>> THEN <<a>>
    ELSE IF s[Len(s)].dt <= a.dt THEN Append(s, a)
    ELSE Append(insert_sorted(SubSeq(s, 1, Len(s) - 1), a), s[Len(s)])

RECURSIVE sort_by_dt(_)
sort_by_dt(s) ==
    IF s = <<>> THEN <<>>
    ELSE insert_sorted(sort_by_dt(SubSeq(s, 1, Len(s) - 1)), s[Len(s)])

\* `lat is not None and lng is not None`
has_gps(asset) == asset.gps # None

\* the anchors carry the id of the asset they are built from only for the
\* properties below; the code reads time, lat and lng alone
build_anchors(valid) ==
    LET with_gps == SelectSeq(valid, has_gps)
    IN  [i \in 1..Len(with_gps) |->
            [time |-> with_gps[i].dt, gps |-> with_gps[i].gps,
             of |-> with_gps[i].id]]

RECURSIVE bisect_right(_, _, _, _)
bisect_right(a, x, lo, hi) ==
    IF lo < hi
    THEN LET mid == (lo + hi) \div 2
         IN  IF x < a[mid + 1] THEN bisect_right(a, x, lo, mid)
             ELSE bisect_right(a, x, mid + 1, hi)
    ELSE lo

\* bisect.bisect_left(a, x, lo, hi) on a 0-based list (a[mid] is a[mid + 1])
RECURSIVE bisect_left(_, _, _, _)
bisect_left(a, x, lo, hi) ==
    IF lo < hi
    THEN LET mid == (lo + hi) \div 2
         IN  IF a[mid + 1] < x THEN bisect_left(a, x, mid + 1, hi)
             ELSE bisect_left(a, x, lo, mid)
    ELSE lo

times_of(anchors) == [i \in 1..Len(anchors) |-> anchors[i].time]

annotate(asset, anchor, tag) ==
    [asset EXCEPT !.interpolated = TRUE, !.new_gps = anchor.gps,
                  !.method_tag = tag, !.anchor_of = anchor.of]

\* method == "FF"
forward_fill(asset, anchors) ==
    LET idx == bisect_left(times_of(anchors), asset.dt, 0, Len(anchors))
    IN  IF idx > 0 THEN annotate(asset, anchors[idx], "FF") ELSE asset

nearer_strict(left_anchor, right_anchor, target_time) ==
    IF Abs(target_time - left_anchor.time) < Abs(right_anchor.time - target_time)
    THEN left_anchor ELSE right_anchor

\* `chosen = left_anchor if diff_left <= diff_right else right_anchor`
nearer(left_anchor, right_anchor, target_time) ==
    IF Abs(target_time - left_anchor.time) <= Abs(right_anchor.time - target_time)
    THEN left_anchor ELSE right_anchor

\* method == "NN"; anchors[idx - 1] and anchors[idx] of the 0-based list are
\* anchors[idx] and anchors[idx + 1] here
nearest_neighbor(asset, anchors) ==
    LET idx == bisect_left(times_of(anchors), asset.dt, 0, Len(anchors))
        has_left == idx > 0
        has_right == idx < Len(anchors)
    IN  IF has_left /\ has_right
        THEN annotate(asset, nearer(anchors[idx], anchors[idx + 1], asset.dt), "NN")
        ELSE IF has_left THEN annotate(asset, anchors[idx], "NN")
        ELSE IF has_right THEN annotate(asset, anchors[idx + 1], "NN")
        ELSE asset

gps_check_dropped(asset) == FALSE

\* `if exif.get("latitude") is not None: continue`
already_has_gps(asset) == asset.gps # None

apply_interpolation(as, m) ==
    LET valid == sort_by_dt(valid_assets(as))
        anchors == build_anchors(valid)
    IN  IF anchors = <<>> THEN valid
        ELSE [i \in 1..Len(valid) |->
                IF already_has_gps(valid[i]) THEN valid[i]
                ELSE IF m = "FF" THEN forward_fill(valid[i], anchors)
                ELSE nearest_neighbor(valid[i], anchors)]

----------------------------------------------------------------------------
(* process_updates *)

\* stats = {"Updated": 0, ..., "Total": len(assets)}
new_stats(as) ==
    [c \in Counters \cup {"Total"} |-> IF c = "Total" THEN Len(as) ELSE 0]

bump_unless_skipped(st, c) ==
    IF c = "Skipped" THEN st ELSE [st EXCEPT ![c] = @ + 1]

\* stats[c] += 1
bump(st, c) == [st EXCEPT ![c] = @ + 1]

\* `lat = asset.get("_new_lat", exif.get("latitude"))`, and lng likewise
coords_used(asset) ==
    IF asset.interpolated THEN asset.new_gps ELSE asset.gps

never_current(current_tz_val, target_tz) == FALSE

\* `if current_tz_val == target_tz:`
is_current(current_tz_val, target_tz) == current_tz_val = target_tz

\* the try block: isoparse(original_str), gettz(target_tz), astimezone
conversion_raises(asset, target_tz) ==
    \/ isoparse_raises(asset.dateTimeOriginal)
    \/ gettz(target_tz) = None

\* the loop body up to `# Update required`: the counter the iteration
\* increments, or "Update required" when it reaches the dispatch
decide(asset) ==
    IF ~truthy(asset.dateTimeOriginal) THEN "Skipped"
    ELSE IF coords_used(asset) = None THEN "Skipped"
    ELSE LET target_tz == resolve_timezone(coords_used(asset))
         IN  IF target_tz = None THEN "Errors"
             ELSE IF conversion_raises(asset, target_tz) THEN "Errors"
             ELSE IF is_current(asset.timeZone, target_tz) THEN "Already correct"
             ELSE "Update required"

\* the payload of the PUT; new_dt is the same instant as dt, shown in target_tz
payload(asset) ==
    [id |-> asset.id,
     dateTimeOriginal |-> isoparse(asset.dateTimeOriginal),
     timeZone |-> resolve_timezone(coords_used(asset)),
     gps |-> coords_used(asset)]

fix_overrides_dry_run(fx, dry) == dry /\ ~fx

\* `if dry_run:` (the parameter fix is never read in process_updates)
is_dry_run(fx, dry) == dry

put_retried(asset, ok) ==
    IF ok THEN <<[request |-> payload(asset), ok |-> TRUE]>>
    ELSE <<[request |-> payload(asset), ok |-> FALSE],
           [request |-> payload(asset), ok |-> FALSE]>>

\* the requests.put calls of one iteration of the live branch
put_calls(asset, ok) == <<[request |-> payload(asset), ok |-> ok]>>

\* main: `if fix or dry_run:`
runs_updates(fx, dry) == fx \/ dry

----------------------------------------------------------------------------
(* main *)

\* `if not any([filename, taken_after, taken_before, fix, dry_run,
\* interpolate])`: has_filter stands for the three filters
NoAction ==
    /\ pc = "start"
    /\ \E has_filter \in BOOLEAN :
          /\ ~(has_filter \/ fix \/ dry_run \/ interpolate)
          /\ pc' = "done"
    /\ UNCHANGED <<fix, dry_run, interpolate, method, catalog, page, requested,
                   fetch_error, all_assets, assets, stats, k, outcomes, puts>>

\* --check-conn with a failing request: check_connection calls sys.exit(1)
ConnectionFailed ==
    /\ pc = "start"
    /\ pc' = "done"
    /\ UNCHANGED <<fix, dry_run, interpolate, method, catalog, page, requested,
                   fetch_error, all_assets, assets, stats, k, outcomes, puts>>

\* main reaches Phase 1 and fetch_all_assets sets all_assets = [], page = 1
BeginFetch ==
    /\ pc = "start"
    /\ \E has_filter \in BOOLEAN :
          has_filter \/ fix \/ dry_run \/ interpolate
    /\ pc' = "fetch"
    /\ page' = 1
    /\ all_assets' = <<>>
    /\ UNCHANGED <<fix, dry_run, interpolate, method, catalog, requested,
                   fetch_error, assets, stats, k, outcomes, puts>>

\* one iteration of `while True` whose request succeeds
FetchPage ==
    /\ pc = "fetch"
    /\ requested' = Append(requested, page)
    /\ LET items == list_assets(page)
       IN  IF items = <<>>
           THEN /\ pc' = "fetched"
                /\ UNCHANGED <<all_assets, page>>
           ELSE /\ all_assets' = all_assets \o items
                /\ IF short_page(items)
                   THEN pc' = "fetched" /\ page' = page
                   ELSE pc' = "fetch" /\ page' = page + 1
    /\ UNCHANGED <<fix, dry_run, interpolate, method, catalog, fetch_error,
                   assets, stats, k, outcomes, puts>>

\* one iteration of `while True` whose request raises RequestException
FetchFails ==
    /\ pc = "fetch"
    /\ requested' = Append(requested, page)
    /\ fetch_error' = TRUE
    /\ pc' = "fetched"
    /\ UNCHANGED <<fix, dry_run, interpolate, method, catalog, page,
                   all_assets, assets, stats, k, outcomes, puts>>

\* `if not assets: ... return`
NoAssetsFound ==
    /\ pc = "fetched"
    /\ all_assets = <<>>
    /\ pc' = "done"
    /\ UNCHANGED <<fix, dry_run, interpolate, method, catalog, page, requested,
                   fetch_error, all_assets, assets, stats, k, outcomes, puts>>

\* Phase 2 with --interpolate
Interpolate ==
    /\ pc = "fetched"
    /\ all_assets # <<>>
    /\ interpolate
    /\ assets' = apply_interpolation(all_assets, method)
    /\ pc' = "phase3"
    /\ UNCHANGED <<fix, dry_run, interpolate, method, catalog, page, requested,
                   fetch_error, all_assets, stats, k, outcomes, puts>>

\* Phase 2 without --interpolate
NoInterpolation ==
    /\ pc = "fetched"
    /\ all_assets # <<>>
    /\ ~interpolate
    /\ assets' = all_assets
    /\ pc' = "phase3"
    /\ UNCHANGED <<fix, dry_run, interpolate, method, catalog, page, requested,
                   fetch_error, all_assets, stats, k, outcomes, puts>>

\* Phase 3: process_updates is entered and builds stats
BeginUpdates ==
    /\ pc = "phase3"
    /\ runs_updates(fix, dry_run)
    /\ stats' = new_stats(assets)
    /\ k' = 0
    /\ pc' = "loop"
    /\ UNCHANGED <<fix, dry_run, interpolate, method, catalog, page, requested,
                   fetch_error, all_assets, assets, outcomes, puts>>

\* Phase 3 with neither --fix nor --dry-run
ReviewMode ==
    /\ pc = "phase3"
    /\ ~runs_updates(fix, dry_run)
    /\ pc' = "done"
    /\ UNCHANGED <<fix, dry_run, interpolate, method, catalog, page, requested,
                   fetch_error, all_assets, assets, stats, k, outcomes, puts>>

\* one iteration of `for asset in assets`
ProcessAsset ==
    /\ pc = "loop"
    /\ k < Len(assets)
    /\ LET asset == assets[k + 1]
           d == decide(asset)
       IN  \E ok \in BOOLEAN :
              LET calls == IF d = "Update required" /\ ~is_dry_run(fix, dry_run)
                           THEN put_calls(asset, ok) ELSE <<>>
                  c == IF d # "Update required" THEN d
                       ELSE IF is_dry_run(fix, dry_run) THEN "Updated"
                       ELSE IF ok THEN "Updated" ELSE "Errors"
              IN  /\ puts' = puts \o calls
                  /\ stats' = bump(stats, c)
                  /\ outcomes' = Append(outcomes, [asset |-> asset, counter |-> c])
    /\ k' = k + 1
    /\ UNCHANGED <<pc, fix, dry_run, interpolate, method, catalog, page,
                   requested, fetch_error, all_assets, assets>>

\* the loop ends; the final table and "Job Complete!" are printed
Finish ==
    /\ pc = "loop"
    /\ k = Len(assets)
    /\ pc' = "done"
    /\ UNCHANGED <<fix, dry_run, interpolate, method, catalog, page, requested,
                   fetch_error, all_assets, assets, stats, k, outcomes, puts>>

----------------------------------------------------------------------------
(* Specifications *)

\* the sequences of length lo..hi over S
SeqsOf(S, lo, hi) == UNION {[1..n -> S] : n \in lo..hi}

\* raw exifInfo records to the assets of a catalog: the position is the id
AsCatalog(raw) ==
    [i \in 1..Len(raw) |-> Fetched(i, raw[i][1], raw[i][2], raw[i][3])]

Methods == {"NN", "FF"}

\* the state main is in before its first statement
AtStart ==
    /\ pc = "start"
    /\ page = 0
    /\ requested = <<>>
    /\ fetch_error = FALSE
    /\ all_assets = <<>>
    /\ assets = <<>>
    /\ stats = new_stats(<<>>)
    /\ k = 0
    /\ outcomes = <<>>
    /\ puts = <<>>

\* the state main is in when fetch_all_assets has returned the whole catalog
\* without a failed request
AfterFetch ==
    /\ pc = "fetched"
    /\ page = Len(catalog) \div size + 1
    /\ requested = [i \in 1..(Len(catalog) \div size + 1) |-> i]
    /\ fetch_error = FALSE
    /\ all_assets = catalog
    /\ assets = <<>>
    /\ stats = new_stats(<<>>)
    /\ k = 0
    /\ outcomes = <<>>
    /\ puts = <<>>

MainExif ==
    {Missing, Garbage, Iso(1)} \X {None, "paris"} \X {"America/Ciudad_Juarez"}

\* The whole of main, every option combination, any catalog of a few assets
Init ==
    /\ fix \in BOOLEAN
    /\ dry_run \in BOOLEAN
    /\ interpolate \in BOOLEAN
    /\ method \in Methods
    /\ (~interpolate => method = "NN")
    /\ catalog \in {AsCatalog(raw) : raw \in SeqsOf(MainExif, 0, MaxAssets)}
    /\ AtStart

Next ==
    \/ NoAction
    \/ ConnectionFailed
    \/ BeginFetch
    \/ FetchPage
    \/ FetchFails
    \/ NoAssetsFound
    \/ Interpolate
    \/ NoInterpolation
    \/ BeginUpdates
    \/ ReviewMode
    \/ ProcessAsset
    \/ Finish

Spec == Init /\ [][Next]_vars

InterpExif ==
    ({Missing} \cup {Iso(t) : t \in 1..MaxTime})
        \X {None, "paris", "juarez"} \X {"America/Ciudad_Juarez"}

\* apply_interpolation on every batch over a range of capture times, followed
\* by a live process_updates
InitInterp ==
    /\ fix = TRUE
    /\ dry_run = FALSE
    /\ interpolate = TRUE
    /\ method \in Methods
    /\ catalog \in {AsCatalog(raw) : raw \in SeqsOf(InterpExif, 1, MaxAssets)}
    /\ AfterFetch

NextInterp ==
    \/ Interpolate
    \/ BeginUpdates
    \/ ProcessAsset
    \/ Finish

SpecInterp == InitInterp /\ [][NextInterp]_vars

ProcExif ==
    {Missing, Garbage, Iso(1)} \X ({None} \cup Coords) \X Zones

\* process_updates on every batch over every kind of asset, dry-run and live,
\* with and without interpolation
InitProc ==
    /\ fix \in BOOLEAN
    /\ dry_run \in BOOLEAN
    /\ fix \/ dry_run
    /\ interpolate \in BOOLEAN
    /\ method \in Methods
    /\ (~interpolate => method = "NN")
    /\ catalog \in {AsCatalog(raw) : raw \in SeqsOf(ProcExif, 1, MaxBatch)}
    /\ AfterFetch

NextProc ==
    \/ Interpolate
    \/ NoInterpolation
    \/ BeginUpdates
    \/ ProcessAsset
    \/ Finish

SpecProc == InitProc /\ [][NextProc]_vars

----------------------------------------------------------------------------
(* Vocabulary of the properties.  Nothing below is read by the actions.    *)

Parseable(asset) == asset.dateTimeOriginal.kind = "iso"

TimeOf(asset) == asset.dateTimeOriginal.t

Range(s) == {s[i] : i \in 1..Len(s)}

\* the number of positions of s whose element satisfies Test
Count(s, Test(_)) == Cardinality({i \in 1..Len(s) : Test(s[i])})

\* process_updates has been entered
InUpdates ==
    \/ pc = "loop"
    \/ (pc = "done" /\ all_assets # <<>> /\ (fix \/ dry_run))

Live == ~dry_run

\* the coordinates the asset carries when process_updates reads it
Carried(asset) == IF asset.interpolated THEN asset.new_gps ELSE asset.gps

\* the resolver was called for the asset and returned an identifier
Resolved(asset) ==
    /\ asset.dateTimeOriginal.kind # "missing"
    /\ Carried(asset) # None
    /\ resolve_timezone(Carried(asset)) # None

Target(asset) == resolve_timezone(Carried(asset))

\* the timestamp parses and the tz database knows the target zone
Converts(asset) == Parseable(asset) /\ gettz(Target(asset)) # None

PutsFor(asset) == SelectSeq(puts, LAMBDA p : p.request.id = asset.id)

----------------------------------------------------------------------------
(* C1 *)

\* C1: in process_updates every loop iteration increments exactly one of
\* Updated, Already correct, Skipped, Errors: each counter equals the number
\* of iterations that chose it, after k iterations the four sum to k, and
\* when the loop has ended they sum to Total, the number of assets handed in.
C1_CountersSumToProcessed ==
    InUpdates =>
        LET sum == stats["Updated"] + stats["Already correct"]
                   + stats["Skipped"] + stats["Errors"]
        IN  /\ Len(outcomes) = k
            /\ \A c \in Counters :
                  stats[c] = Count(outcomes, LAMBDA o : o.counter = c)
            /\ sum = k
            /\ stats["Total"] = Len(assets)
            /\ (pc = "done" => sum = stats["Total"])

\* a finished batch of two or more assets with an Errors and a Skipped outcome
C1_Witness ==
    /\ pc = "done"
    /\ k >= 2
    /\ stats["Errors"] >= 1
    /\ stats["Skipped"] >= 1
    /\ stats["Total"] = k

----------------------------------------------------------------------------
(* C2 *)

\* C2: every fetched asset is counted: Total equals the number of assets
\* fetched, at the end of the loop every fetched asset has exactly one
\* outcome, and an asset whose timestamp is missing or unparseable is Skipped.
C2_EveryFetchedAssetCounted ==
    InUpdates =>
        /\ stats["Total"] = Len(all_assets)
        /\ (k = Len(assets) =>
              \A a \in Range(all_assets) :
                 /\ Count(outcomes, LAMBDA o : o.asset.id = a.id) = 1
                 /\ (~Parseable(a) =>
                        \A o \in Range(outcomes) :
                           o.asset.id = a.id => o.counter = "Skipped"))

----------------------------------------------------------------------------
(* C3 *)

\* C3 as stated: for every processed asset for which the resolver returned a
\* target, the outcome is Already correct iff the stored identifier equals it.
C3_AlreadyCorrectIffEqual ==
    \A o \in Range(outcomes) :
        Resolved(o.asset) =>
            (o.counter = "Already correct" <=> o.asset.timeZone = Target(o.asset))

\* The same statement on the assets whose timestamp parses: it fails there as
\* well, on a target zone gettz does not know, so the failure does not rest
\* on the Errors outcome of an unparseable timestamp alone.
C3_OnParseableTimestamps ==
    \A o \in Range(outcomes) :
        (Resolved(o.asset) /\ Parseable(o.asset)) =>
            (o.counter = "Already correct" <=> o.asset.timeZone = Target(o.asset))

\* C3 amended: for every processed asset for which the resolver returned a
\* target, the outcome is Already correct iff the stored identifier equals
\* the target and the timestamp conversion into the target zone succeeded;
\* with equal identifiers the outcome is never Updated or Skipped, and it is
\* Errors exactly when the conversion failed; with differing identifiers it
\* is never Already correct.
C3_AlreadyCorrectIffEqualAndConverted ==
    \A o \in Range(outcomes) :
        Resolved(o.asset) =>
            /\ (o.counter = "Already correct"
                  <=> (o.asset.timeZone = Target(o.asset) /\ Converts(o.asset)))
            /\ (o.asset.timeZone = Target(o.asset) =>
                  /\ o.counter \in {"Already correct", "Errors"}
                  /\ (o.counter = "Errors" <=> ~Converts(o.asset)))

\* one batch holds an asset found Already correct and an asset whose stored
\* identifier equals the target but whose conversion failed
C3_Witness ==
    /\ \E o \in Range(outcomes) :
          /\ Resolved(o.asset)
          /\ o.asset.timeZone = Target(o.asset)
          /\ o.counter = "Already correct"
    /\ \E o \in Range(outcomes) :
          /\ Resolved(o.asset)
          /\ o.asset.timeZone = Target(o.asset)
          /\ o.counter = "Errors"

----------------------------------------------------------------------------
(* C4 *)

\* the asset reaches `# Update required`
NeedsChange(asset) ==
    Resolved(asset) /\ Converts(asset) /\ asset.timeZone # Target(asset)

\* C4: a PUT is issued only with --fix set and --dry-run not set; with
\* --dry-run set (also together with --fix) or with neither flag no PUT is
\* ever issued, and in dry-run every asset needing a change is counted Updated.
C4_PutOnlyWhenFixAndNotDryRun ==
    /\ (puts # <<>> => (fix /\ ~dry_run))
    /\ (dry_run =>
          \A o \in Range(outcomes) :
             NeedsChange(o.asset) => o.counter = "Updated")

\* a finished run with --fix and --dry-run both set that counted an asset
\* Updated and issued no PUT
C4_Witness ==
    /\ pc = "done"
    /\ fix
    /\ dry_run
    /\ \E o \in Range(outcomes) : NeedsChange(o.asset) /\ o.counter = "Updated"
    /\ puts = <<>>

----------------------------------------------------------------------------
(* C5 *)

\* C5 as stated: in live mode every processed asset whose stored identifier
\* differs from the resolved target has exactly one PUT, and is Updated if
\* the PUT succeeded and Errors if it failed.
C5_OnePutPerDifferingAsset ==
    (InUpdates /\ Live) =>
        \A o \in Range(outcomes) :
            (Resolved(o.asset) /\ o.asset.timeZone # Target(o.asset)) =>
                /\ Len(PutsFor(o.asset)) = 1
                /\ o.counter = (IF PutsFor(o.asset)[1].ok THEN "Updated" ELSE "Errors")

\* The same statement on the assets whose timestamp parses: it fails there as
\* well, on a target zone gettz does not know.
C5_OnParseableTimestamps ==
    (InUpdates /\ Live) =>
        \A o \in Range(outcomes) :
            (Resolved(o.asset) /\ Parseable(o.asset)
                /\ o.asset.timeZone # Target(o.asset)) =>
                /\ Len(PutsFor(o.asset)) = 1
                /\ o.counter = (IF PutsFor(o.asset)[1].ok THEN "Updated" ELSE "Errors")

\* C5 amended: in live mode, for every processed asset whose stored
\* identifier differs from the resolved target: if the timestamp conversion
\* succeeded exactly one PUT is issued for it (never a second one) and it is
\* Updated if the PUT succeeded, Errors if it failed; if the conversion failed
\* no PUT is issued and it is Errors.  In both cases the loop goes on: when it
\* ends every asset of the batch has an outcome.
C5_OnePutPerPendingMutation ==
    (InUpdates /\ Live) =>
        /\ \A o \in Range(outcomes) :
              (Resolved(o.asset) /\ o.asset.timeZone # Target(o.asset)) =>
                  IF Converts(o.asset)
                  THEN /\ Len(PutsFor(o.asset)) = 1
                       /\ o.counter = (IF PutsFor(o.asset)[1].ok
                                       THEN "Updated" ELSE "Errors")
                  ELSE /\ PutsFor(o.asset) = <<>>
                       /\ o.counter = "Errors"
        /\ \A i \in 1..Len(outcomes) : outcomes[i].asset = assets[i]
        /\ (pc = "done" => Len(outcomes) = Len(assets))

\* a finished live batch whose first asset's PUT failed (Errors) and whose
\* second asset was still processed and Updated by its own PUT
C5_Witness ==
    /\ pc = "done"
    /\ Live
    /\ Len(outcomes) >= 2
    /\ NeedsChange(outcomes[1].asset)
    /\ outcomes[1].counter = "Errors"
    /\ NeedsChange(outcomes[2].asset)
    /\ outcomes[2].counter = "Updated"
    /\ Len(puts) = 2

----------------------------------------------------------------------------
(* C6, C7, C8: apply_interpolation *)

\* apply_interpolation has returned
Interpolated == interpolate /\ pc \in {"phase3", "loop", "done"}

\* the fetched assets an anchor is built from
AnchorAssets == {a \in Range(all_assets) : Parseable(a) /\ a.gps # None}

\* the fetched assets interpolation is meant for
Coordless == {a \in Range(all_assets) : Parseable(a) /\ a.gps = None}

Dist(a, e) == Abs(TimeOf(a) - TimeOf(e))

\* C6: with method FF every asset with a parseable timestamp and no native
\* coordinates is annotated with the coordinates of an anchor of the greatest
\* time strictly less than its own, and gets no annotation when no anchor is
\* strictly earlier.
C6_ForwardFillStrictlyEarlier ==
    (Interpolated /\ method = "FF") =>
        \A a \in Coordless :
            \E r \in Range(assets) :
                /\ r.id = a.id
                /\ LET earlier == {e \in AnchorAssets : TimeOf(e) < TimeOf(a)}
                   IN  IF earlier # {}
                       THEN /\ r.interpolated
                            /\ r.method_tag = "FF"
                            /\ \E e \in earlier :
                                  /\ \A f \in earlier : TimeOf(f) <= TimeOf(e)
                                  /\ r.anchor_of = e.id
                                  /\ r.new_gps = e.gps
                       ELSE /\ ~r.interpolated
                            /\ r.new_gps = None

\* FF annotated an asset from an earlier anchor although another anchor, with
\* other coordinates, lies at the asset's own time
C6_Witness ==
    /\ Interpolated
    /\ method = "FF"
    /\ \E r \in Range(assets) :
          /\ r.interpolated
          /\ \E e \in AnchorAssets : TimeOf(e) = r.dt /\ e.gps # r.new_gps

\* C7: with method NN and at least one anchor every asset with a parseable
\* timestamp and no native coordinates is annotated with the coordinates of an
\* anchor at minimal time distance over all anchors; when an earlier and a
\* later anchor are both at that minimal distance the earlier one is chosen.
C7_NearestNeighborPredecessorOnTie ==
    (Interpolated /\ method = "NN" /\ AnchorAssets # {}) =>
        \A a \in Coordless :
            \E r \in Range(assets) :
                /\ r.id = a.id
                /\ r.interpolated
                /\ r.method_tag = "NN"
                /\ \E e \in AnchorAssets :
                      /\ r.anchor_of = e.id
                      /\ r.new_gps = e.gps
                      /\ \A f \in AnchorAssets : Dist(a, e) <= Dist(a, f)
                      /\ ((\E p, q \in AnchorAssets :
                              /\ TimeOf(p) < TimeOf(a)
                              /\ TimeOf(a) < TimeOf(q)
                              /\ Dist(a, p) = Dist(a, q)
                              /\ Dist(a, p) = Dist(a, e))
                            => TimeOf(e) < TimeOf(a))

\* NN annotated an asset lying exactly halfway between an earlier and a
\* later anchor of different coordinates
C7_Witness ==
    /\ Interpolated
    /\ method = "NN"
    /\ \E r \in Range(assets) :
          /\ r.interpolated
          /\ \E p, q \in AnchorAssets :
                /\ TimeOf(p) < r.dt
                /\ r.dt < TimeOf(q)
                /\ r.dt - TimeOf(p) = TimeOf(q) - r.dt
                /\ p.gps # q.gps
                /\ r.new_gps = p.gps

\* C8: after apply_interpolation no asset with native coordinates carries an
\* annotation, the PUT for such an asset carries its native coordinates and
\* the zone resolved from them, and every annotation is copied from the anchor
\* of another asset.
C8_NativeCoordinatesNeverInterpolated ==
    Interpolated =>
        /\ \A r \in Range(assets) :
              /\ (r.gps # None =>
                     /\ ~r.interpolated
                     /\ r.new_gps = None
                     /\ r.anchor_of = 0)
              /\ (r.interpolated =>
                     /\ r.anchor_of # r.id
                     /\ \E e \in AnchorAssets :
                           e.id = r.anchor_of /\ e.gps = r.new_gps)
        /\ \A i \in 1..Len(puts) :
              \A a \in Range(all_assets) :
                 (a.id = puts[i].request.id /\ a.gps # None) =>
                     /\ puts[i].request.gps = a.gps
                     /\ puts[i].request.timeZone = resolve_timezone(a.gps)

\* a finished run that annotated one asset and issued the PUT of an asset
\* with native coordinates lying at the same time as an anchor elsewhere
C8_Witness ==
    /\ Interpolated
    /\ pc = "done"
    /\ \E r \in Range(assets) : r.interpolated
    /\ \E i \in 1..Len(puts) :
          \E a, b \in AnchorAssets :
             /\ a.id = puts[i].request.id
             /\ b.id # a.id
             /\ TimeOf(b) = TimeOf(a)
             /\ b.gps # a.gps

----------------------------------------------------------------------------
(* C9 *)

\* C9: every processed asset with neither native nor interpolated
\* coordinates, or with no parseable timestamp, is counted Skipped.
C9_NoCoordinatesOrTimestampIsSkipped ==
    \A o \in Range(outcomes) :
        (Carried(o.asset) = None \/ ~Parseable(o.asset)) =>
            o.counter = "Skipped"

----------------------------------------------------------------------------
(* C10 *)

RECURSIVE PagesConcat(_)
PagesConcat(n) ==
    IF n <= 0 THEN <<>> ELSE PagesConcat(n - 1) \o list_assets(n)

====
